---- MODULE Spec2Model ----
(***************************************************************************)
(* The request-authorization and error-handling pipeline of the backend:   *)
(* the middleware auth, optionalAuth and authorize (middleware/auth.js),   *)
(* the wrapper asyncHandler and the errorHandler (middleware/errorHandler) *)
(* and the token helper generateToken (routes/authentication).  One        *)
(* request at a time travels through a chain of middleware the way the     *)
(* Express router runs it: next() moves on, next(err) and a synchronous    *)
(* throw go to the error-handling middleware.  Spec is the pipeline with   *)
(* errorHandler behind it, ServerSpec the application as the server entry  *)
(* point assembles it, RepeatSpec auth called twice with one header.       *)
(***************************************************************************)
EXTENDS Integers, Sequences, FiniteSets, TLC

VARIABLES
    now,        \* the clock jwt.verify and jwt.sign read, in hours
    env,        \* config.server.env
    phase,      \* "idle" | "run" | "await" | "error" | "done"
    idx,        \* position in the chain of the middleware that runs next
    route,      \* the mounted chain and the argument authorize was built with
    req,        \* the request: headers.authorization and user
    err,        \* the error handed to next(err), NoErr otherwise
    res,        \* the response
    log,        \* what happened to this request, in order
    unhandled,  \* errors that became unhandled promise rejections
    users,      \* the users Map of routes/authentication, by email
    payments,   \* the payments Map of routes/payment, by payment id
    seen,       \* what an earlier call of auth was given and what it attached
    cache,      \* the NodeCache of routes/weather, by cache key
    tasks       \* the requests in flight when several are served at once

vars == <<now, env, phase, idx, route, req, err, res, log, unhandled,
          users, payments, seen, cache, tasks>>

----------------------------------------------------------------------------
(* Bounds of the model. *)

\* The clock advances by this many hours per tick.
ClockStep == 12

\* The clock stops here.
MaxTime == 36

(* config.jwt.expiresIn, '24h', in hours. *)
ExpiresIn == 24

(* config.jwt.secret, and a secret of somebody else. *)
ConfiguredSecret == "your-secret-key"

OtherSecret == "attacker-key"

Undefined == "undefined"

----------------------------------------------------------------------------
(* Errors.  status 0 is a missing status property, details "" is null.     *)

Err(cls, name, message, status) ==
    [cls |-> cls, name |-> name, message |-> message, status |-> status,
     details |-> ""]

NoErr == Err("none", "", "", 0)

(* An error object that also carries a details property. *)
WithDetails(e, details) == [e EXCEPT !.details = details]

(* class APIError: message, status = 500, details = null. *)
APIError(message, status) == Err("APIError", "APIError", message, status)

(* The errors jsonwebtoken throws; none carries a status. *)
JsonWebTokenError(message) == Err("Error", "JsonWebTokenError", message, 0)

TokenExpiredError == Err("Error", "TokenExpiredError", "jwt expired", 0)

NotBeforeError == Err("Error", "NotBeforeError", "jwt not active", 0)

----------------------------------------------------------------------------
(* Tokens.  A token is a payload and a signature; the signature records    *)
(* the key it was made with and the payload it was made over, so that a    *)
(* token signed with another key, or altered after signing, does not       *)
(* verify.  iat, exp and nbf are sets: empty when the claim is missing.    *)

NoPayload ==
    [defined |-> FALSE, id |-> "", email |-> "", role |-> "",
     iat |-> {}, exp |-> {}, nbf |-> {}]

Payload(id, email, role, iat, exp, nbf) ==
    [defined |-> TRUE, id |-> id, email |-> email, role |-> role,
     iat |-> iat, exp |-> exp, nbf |-> nbf]

(* jwt.sign(payload, secret). *)
Sign(payload, secret) ==
    [wf |-> TRUE, payload |-> payload,
     sig |-> [key |-> secret, over |-> payload]]

NoJwt == [wf |-> FALSE, payload |-> NoPayload,
          sig |-> [key |-> "", over |-> NoPayload]]

(* The users a token can be issued for (register stores role 'user'). *)
Users ==
    { [id |-> "1001", email |-> "ann@example.com", role |-> "user"],
      [id |-> "1002", email |-> "bob@example.com", role |-> "admin"] }

(* generateToken(user), called at time t: id, email and role of the user,  *)
(* signed with the configured secret, expiring ExpiresIn later.            *)
generateToken(user, t) ==
    Sign(Payload(user.id, user.email, user.role, {t}, {t + ExpiresIn}, {}),
         ConfiguredSecret)

----------------------------------------------------------------------------
(* The Authorization header.  A header value is a string, modelled as a    *)
(* sequence of atoms: a word, the space character, or a token.  A missing  *)
(* header is undefined.                                                    *)

Word(w) == [w |-> w, jwt |-> NoJwt]

Jwt(tok) == [w |-> "", jwt |-> tok]

SP == Word(" ")

UndefinedHeader == [present |-> FALSE, val |-> <<>>]

HeaderOf(atoms) == [present |-> TRUE, val |-> atoms]

(* !authHeader: undefined and the empty string are falsy. *)
IsFalsy(h) == ~h.present \/ h.val = <<>>

(* A variant that tests for 'Bearer' without the space after it. *)
StartsWithBearerNoSpace(h) ==
    Len(h.val) >= 1 /\ h.val[1] = Word("Bearer")

(* authHeader.startsWith('Bearer ') *)
StartsWithBearer(h) ==
    /\ Len(h.val) >= 2
    /\ SubSeq(h.val, 1, 2) = <<Word("Bearer"), SP>>

(* String.prototype.split(' '): the pieces between the spaces, an empty    *)
(* piece where two spaces meet or the string ends in one.                  *)
RECURSIVE SplitFrom(_, _, _)
SplitFrom(s, i, piece) ==
    IF i > Len(s) THEN <<piece>>
    ELSE IF s[i] = SP THEN <<piece>> \o SplitFrom(s, i + 1, <<>>)
    ELSE SplitFrom(s, i + 1, Append(piece, s[i]))

Split(s) == SplitFrom(s, 1, <<>>)

(* A variant that takes the first piece, split(' ')[0]. *)
ExtractFirstPiece(h) == Split(h.val)[1]

(* authHeader.split(' ')[1]: the second piece, undefined (which jwt.verify  *)
(* treats like the empty string) when there is none.                       *)
ExtractToken(h) ==
    LET pieces == Split(h.val) IN
    IF Len(pieces) >= 2 THEN pieces[2] ELSE <<>>

----------------------------------------------------------------------------
(* jwt.verify(token, secret) at time t, in the order the library checks:   *)
(* the string, its shape, the signature, nbf, exp.  It returns the payload *)
(* or throws one of its three errors.                                      *)

Thrown(e) == [ok |-> FALSE, decoded |-> NoPayload, error |-> e]

Returned(p) == [ok |-> TRUE, decoded |-> p, error |-> NoErr]

SignatureValid(tok, secret) ==
    tok.sig.key = secret /\ tok.sig.over = tok.payload

NotYetActive(p, t) == \E n \in p.nbf : n > t

Expired(p, t) == \E e \in p.exp : t >= e

verify(piece, secret, t) ==
    IF piece = <<>> THEN Thrown(JsonWebTokenError("jwt must be provided"))
    ELSE IF Len(piece) # 1 \/ piece[1].w # ""
        THEN Thrown(JsonWebTokenError("jwt malformed"))
    ELSE LET tok == piece[1].jwt IN
        IF ~tok.wf THEN Thrown(JsonWebTokenError("invalid token"))
        ELSE IF ~SignatureValid(tok, secret)
            THEN Thrown(JsonWebTokenError("invalid signature"))
        ELSE IF NotYetActive(tok.payload, t) THEN Thrown(NotBeforeError)
        ELSE IF Expired(tok.payload, t) THEN Thrown(TokenExpiredError)
        ELSE Returned(tok.payload)

----------------------------------------------------------------------------
(* The middleware.  Each is an operator from the request (and the clock)   *)
(* to what the call did: the request afterwards, whether jwt.verify was    *)
(* called, the argument of its call of next (NoErr for next()), and what   *)
(* it threw to its caller (NoErr when it returned).                        *)

Outcome(rq, verified, called, nextErr, thrown) ==
    [req |-> rq, verified |-> verified, called |-> called,
     next |-> nextErr, thrown |-> thrown]

(* A variant that answers a missing header with 403. *)
NoTokenErrorForbidden == APIError("No authentication token provided", 403)

(* auth, line 16 *)
NoTokenError == APIError("No authentication token provided", 401)

(* auth, line 21 *)
InvalidFormatError == APIError("Invalid token format", 401)

(* auth, lines 35-43: the inner catch. *)
MapVerifyError(e) ==
    IF e.name = "TokenExpiredError" THEN APIError("Token has expired", 401)
    ELSE IF e.name = "JsonWebTokenError" THEN APIError("Invalid token", 401)
    ELSE e

(* A variant that attaches the remaining lifetime in place of exp. *)
authAttachesRemainingLifetime(rq, t) ==
    LET authHeader == rq.headers.authorization IN
    IF IsFalsy(authHeader) THEN Outcome(rq, FALSE, TRUE, NoTokenError, NoErr)
    ELSE IF ~StartsWithBearer(authHeader)
        THEN Outcome(rq, FALSE, TRUE, InvalidFormatError, NoErr)
    ELSE LET v == verify(ExtractToken(authHeader), ConfiguredSecret, t) IN
        IF v.ok
        THEN Outcome([rq EXCEPT !.user =
                         [v.decoded EXCEPT !.exp = { e - t : e \in v.decoded.exp }]],
                     TRUE, TRUE, NoErr, NoErr)
        ELSE Outcome(rq, TRUE, TRUE, MapVerifyError(v.error), NoErr)

(* A variant that goes on without an identity when the check fails. *)
authContinuesOnFailure(rq, t) ==
    LET authHeader == rq.headers.authorization IN
    IF IsFalsy(authHeader) THEN Outcome(rq, FALSE, TRUE, NoErr, NoErr)
    ELSE IF ~StartsWithBearer(authHeader)
        THEN Outcome(rq, FALSE, TRUE, NoErr, NoErr)
    ELSE LET v == verify(ExtractToken(authHeader), ConfiguredSecret, t) IN
        IF v.ok
        THEN Outcome([rq EXCEPT !.user = v.decoded], TRUE, TRUE, NoErr, NoErr)
        ELSE Outcome(rq, TRUE, TRUE, NoErr, NoErr)

(* auth, lines 10-47.  Whatever is thrown inside reaches next(error). *)
auth(rq, t) ==
    LET authHeader == rq.headers.authorization IN
    IF IsFalsy(authHeader) THEN Outcome(rq, FALSE, TRUE, NoTokenError, NoErr)
    ELSE IF ~StartsWithBearer(authHeader)
        THEN Outcome(rq, FALSE, TRUE, InvalidFormatError, NoErr)
    ELSE LET v == verify(ExtractToken(authHeader), ConfiguredSecret, t) IN
        IF v.ok
        THEN Outcome([rq EXCEPT !.user = v.decoded], TRUE, TRUE, NoErr, NoErr)
        ELSE Outcome(rq, TRUE, TRUE, MapVerifyError(v.error), NoErr)

(* A variant that hands a verification error to next, as auth does. *)
optionalAuthPassesError(rq, t) ==
    LET authHeader == rq.headers.authorization IN
    IF IsFalsy(authHeader) \/ ~StartsWithBearer(authHeader)
    THEN Outcome(rq, FALSE, TRUE, NoErr, NoErr)
    ELSE LET v == verify(ExtractToken(authHeader), ConfiguredSecret, t) IN
        IF v.ok
        THEN Outcome([rq EXCEPT !.user = v.decoded], TRUE, TRUE, NoErr, NoErr)
        ELSE Outcome(rq, TRUE, TRUE, v.error, NoErr)

(* optionalAuth, lines 75-97. *)
optionalAuth(rq, t) ==
    LET authHeader == rq.headers.authorization IN
    IF IsFalsy(authHeader) \/ ~StartsWithBearer(authHeader)
    THEN Outcome(rq, FALSE, TRUE, NoErr, NoErr)
    ELSE LET v == verify(ExtractToken(authHeader), ConfiguredSecret, t) IN
        IF v.ok
        THEN Outcome([rq EXCEPT !.user = v.decoded], TRUE, TRUE, NoErr, NoErr)
        ELSE Outcome(rq, TRUE, TRUE, NoErr, NoErr)

(* The argument of authorize: nothing, a string, or an array of strings. *)
NoRoles == [kind |-> "undefined", str |-> "", list |-> <<>>]

RoleString(s) == [kind |-> "string", str |-> s, list |-> <<>>]

RoleArray(l) == [kind |-> "array", str |-> "", list |-> l]

(* authorize, lines 53-56: roles = [] by default, [roles] for a string. *)
NormalizeRoles(arg) ==
    IF arg.kind = "undefined" THEN <<>>
    ELSE IF arg.kind = "string" THEN <<arg.str>>
    ELSE arg.list

(* A variant that compares with the first element only, roles[0]. *)
IncludesFirstOnly(list, x) == Len(list) >= 1 /\ list[1] = x

Includes(list, x) == \E i \in 1..Len(list) : list[i] = x

(* A variant that checks the role before the identity (req.user?.role). *)
authorizeRoleFirst(arg, rq) ==
    LET roles == NormalizeRoles(arg) IN
    IF Len(roles) # 0 /\ ~Includes(roles, rq.user.role)
    THEN Outcome(rq, FALSE, FALSE, NoErr,
                 APIError("Unauthorized - Insufficient permissions", 403))
    ELSE IF ~rq.user.defined
    THEN Outcome(rq, FALSE, FALSE, NoErr, APIError("User not authenticated", 401))
    ELSE Outcome(rq, FALSE, TRUE, NoErr, NoErr)

(* A variant without the roles.length test. *)
authorizeNoLengthTest(arg, rq) ==
    LET roles == NormalizeRoles(arg) IN
    IF ~rq.user.defined
    THEN Outcome(rq, FALSE, FALSE, NoErr, APIError("User not authenticated", 401))
    ELSE IF ~Includes(roles, rq.user.role)
    THEN Outcome(rq, FALSE, FALSE, NoErr,
                 APIError("Unauthorized - Insufficient permissions", 403))
    ELSE Outcome(rq, FALSE, TRUE, NoErr, NoErr)

(* authorize(roles), lines 53-69: the middleware it returns. *)
authorize(arg, rq) ==
    LET roles == NormalizeRoles(arg) IN
    IF ~rq.user.defined
    THEN Outcome(rq, FALSE, FALSE, NoErr, APIError("User not authenticated", 401))
    ELSE IF Len(roles) # 0 /\ ~Includes(roles, rq.user.role)
    THEN Outcome(rq, FALSE, FALSE, NoErr,
                 APIError("Unauthorized - Insufficient permissions", 403))
    ELSE Outcome(rq, FALSE, TRUE, NoErr, NoErr)

----------------------------------------------------------------------------
(* Responses.  A body is the handler's own payload or the error envelope   *)
(* { error: { message, status, details?, stack? } }; details "" and        *)
(* stack "" are keys that are not there.                                   *)

Body(kind, message, status, details, stack) ==
    [kind |-> kind, message |-> message, status |-> status,
     details |-> details, stack |-> stack]

NoResponse == [sent |-> FALSE, code |-> 0, body |-> Body("none", "", 0, "", "")]

(* res.status(code).json(body) *)
Json(code, body) == [sent |-> TRUE, code |-> code, body |-> body]

(* What a handler answers when nothing fails. *)
SuccessResponse == Json(200, Body("success", "", 0, "", ""))

(* err.stack of an Error object. *)
StackOf(e) == "Error: " \o e.message \o " at <anonymous>"

(* A variant that answers every failure with the generic message. *)
errorHandlerGenericMessage(e, mode) ==
    LET statusCode == IF e.status # 0 THEN e.status ELSE 500
    IN  Json(statusCode,
             Body("error", "Internal Server Error", statusCode, e.details,
                  IF mode = "development" THEN StackOf(e) ELSE ""))

(* A variant that withholds the stack in production only. *)
errorHandlerStackUnlessProduction(e, mode) ==
    LET isAPIError == e.cls = "APIError"
        statusCode == IF e.status # 0 THEN e.status ELSE 500
    IN  Json(statusCode,
             Body("error",
                  IF isAPIError THEN e.message ELSE "Internal Server Error",
                  statusCode,
                  e.details,
                  IF mode # "production" THEN StackOf(e) ELSE ""))

(* errorHandler, lines 123-149: the status is err.status || 500 and the    *)
(* details are err.details for an error of any class; only the message     *)
(* depends on the class.                                                   *)
errorHandler(e, mode) ==
    LET isAPIError == e.cls = "APIError"
        statusCode == IF e.status # 0 THEN e.status ELSE 500
    IN  Json(statusCode,
             Body("error",
                  IF isAPIError THEN e.message ELSE "Internal Server Error",
                  statusCode,
                  e.details,
                  IF mode = "development" THEN StackOf(e) ELSE ""))

(* What the wrapped function fn did when called, or when it was resumed:   *)
(* an async function resolves, rejects or suspends at an await; a plain    *)
(* function that throws, throws to its caller.                             *)
Settled(kind, e, response) == [kind |-> kind, err |-> e, res |-> response]

(* A variant without .catch(next): fn(req, res, next) and nothing more. *)
asyncHandlerNoCatch(o) ==
    [next      |-> NoErr,
     called    |-> FALSE,
     thrown    |-> IF o.kind = "threw" THEN o.err ELSE NoErr,
     unhandled |-> IF o.kind = "rejected" THEN o.err ELSE NoErr]

(* asyncHandler, lines 152-154: Promise.resolve(fn(req, res, next))        *)
(* .catch(next).  A rejection is handed to next; a synchronous throw of fn *)
(* leaves the wrapper as a throw; nothing is left unhandled.               *)
asyncHandler(o) ==
    [next      |-> IF o.kind = "rejected" THEN o.err ELSE NoErr,
     called    |-> o.kind = "rejected",
     thrown    |-> IF o.kind = "threw" THEN o.err ELSE NoErr,
     unhandled |-> NoErr]

----------------------------------------------------------------------------
(* The inputs. *)

Instants(t) == { i \in 0..t : i % ClockStep = 0 }

(* The identities a signed payload can name: the users as stored, and the   *)
(* first of them with a role the application does not know, or with none.  *)
Identities ==
    Users \cup { [id |-> "1001", email |-> "ann@example.com", role |-> r] :
                   r \in {"guest", Undefined} }

(* Payloads a token presented at time t can carry: issued at an earlier    *)
(* instant, expiring ExpiresIn later or never, active at once or only at   *)
(* MaxTime.                                                                *)
Payloads(t) ==
    { Payload(u.id, u.email, u.role, {i},
              IF expires THEN {i + ExpiresIn} ELSE {}, n) :
        u \in Identities, i \in Instants(t),
        expires \in BOOLEAN, n \in {{}, {MaxTime}} }

(* Tokens a client can present at time t: those generateToken issued,      *)
(* tokens signed with the configured or another secret, a token whose      *)
(* role was changed after signing, and one that does not decode.           *)
Tokens(t) ==
    { generateToken(u, i) : u \in Users, i \in Instants(t) }
    \cup { Sign(p, ConfiguredSecret) : p \in Payloads(t) }
    \cup { Sign(generateToken(u, i).payload, OtherSecret) :
             u \in Users, i \in Instants(t) }
    \cup { [generateToken(u, i) EXCEPT !.payload.role = "admin"] :
             u \in {v \in Users : v.role # "admin"}, i \in Instants(t) }
    \cup { NoJwt }

(* Header values: the shapes that differ for startsWith and split. *)
Headers(t) ==
    { UndefinedHeader, HeaderOf(<<>>),
      HeaderOf(<<Word("Bearer")>>),
      HeaderOf(<<Word("Bearer"), SP>>),
      HeaderOf(<<Word("Bearer"), SP, Word("abc")>>) }
    \cup { HeaderOf(<<Word("Bearer"), SP, Jwt(tok)>>) : tok \in Tokens(t) }
    \cup UNION { { HeaderOf(<<Word("Basic"), SP, Jwt(generateToken(u, i))>>),
                   HeaderOf(<<Word("bearer"), SP, Jwt(generateToken(u, i))>>),
                   HeaderOf(<<Jwt(generateToken(u, i))>>),
                   HeaderOf(<<Word("Bearer"), Jwt(generateToken(u, i))>>),
                   HeaderOf(<<Word("Bearer"), SP, SP, Jwt(generateToken(u, i))>>),
                   HeaderOf(<<Word("Bearer"), SP, Jwt(generateToken(u, i)), SP,
                              Word("abc")>>) } :
                 u \in Users, i \in Instants(t) }

(* The chains of middleware a route can be mounted with. *)
Chains ==
    { <<"auth", "handler">>,
      <<"optionalAuth", "handler">>,
      <<"auth", "authorize", "handler">>,
      <<"optionalAuth", "authorize", "handler">>,
      <<"authorize", "handler">> }

RoleArgs ==
    { NoRoles, RoleArray(<<>>), RoleArray(<<"admin">>), RoleString("admin"),
      RoleArray(<<"user", "admin">>) }

HasAuthorize(chain) == \E i \in 1..Len(chain) : chain[i] = "authorize"

Routes ==
    { [chain |-> c, roles |-> a] :
        c \in {d \in Chains : HasAuthorize(d)}, a \in RoleArgs }
    \cup { [chain |-> c, roles |-> NoRoles] : c \in {d \in Chains : ~HasAuthorize(d)} }

(* Values of NODE_ENV; config.server.env is 'development' when unset. *)
Modes == {"development", "production", "test"}

(* What a handler can fail with: an APIError without and with details, and *)
(* errors of other classes, one of them carrying a status and one carrying *)
(* details.                                                                *)
HandlerErrors ==
    { APIError("Payment not found", 404),
      Err("Error", "Error", "Payment processing failed", 0),
      Err("Error", "TypeError", "Cannot read properties of undefined", 0),
      WithDetails(APIError("Validation failed", 400), "field errors"),
      Err("Error", "SyntaxError", "Unexpected token in JSON", 400),
      WithDetails(Err("Error", "Error", "Upstream failure", 0), "internal trace") }

----------------------------------------------------------------------------
(* The state machine. *)

Event(ev, by, e) == [ev |-> ev, by |-> by, err |-> e, at |-> now]

NewReq(h) == [headers |-> [authorization |-> h], user |-> NoPayload]

(* No request is being served. *)
Idle ==
    /\ phase = "idle"
    /\ idx = 0
    /\ route = [chain |-> <<>>, roles |-> NoRoles]
    /\ req = NewReq(UndefinedHeader)
    /\ err = NoErr
    /\ res = NoResponse
    /\ log = <<>>

(* The Maps of the route modules, which outlive a request. *)
stores == <<users, payments, seen, cache, tasks>>

\* This many requests are in flight at once.
MaxTasks == 2

(* A slot for a request in flight that holds none. *)
FreeTask == [pc |-> "free"]

(* The accounts the tokens of Users were issued to. *)
RegisteredUsers ==
    [m \in {u.email : u \in Users} |->
        LET u == CHOOSE v \in Users : v.email = m
        IN  [id |-> u.id, email |-> u.email, role |-> u.role,
             password |-> "hash(old)"]]

(* new Map() *)
EmptyMap == [k \in {} |-> k]

(* auth has not been called before. *)
NotSeen == [called |-> FALSE, header |-> UndefinedHeader, user |-> NoPayload,
            error |-> NoErr, at |-> 0]

Init ==
    /\ now = 0
    /\ env \in Modes
    /\ unhandled = {}
    /\ users = RegisteredUsers
    /\ payments = EmptyMap
    /\ seen = NotSeen
    /\ cache = EmptyMap
    /\ tasks = [k \in 1..MaxTasks |-> FreeTask]
    /\ Idle

Current == IF phase = "run" THEN route.chain[idx] ELSE ""

(* Time passes between requests and while a handler is suspended. *)
Tick ==
    /\ phase \in {"idle", "await"}
    /\ now + ClockStep <= MaxTime
    /\ now' = now + ClockStep
    /\ UNCHANGED <<env, phase, idx, route, req, err, res, log, unhandled>>
    /\ UNCHANGED stores

(* A request arrives on a route. *)
NewRequest ==
    /\ phase = "idle"
    /\ \E h \in Headers(now), rt \in Routes :
        /\ req' = NewReq(h)
        /\ route' = rt
    /\ phase' = "run"
    /\ idx' = 1
    /\ UNCHANGED <<now, env, err, res, log, unhandled>>
    /\ UNCHANGED stores

(* The router after a middleware returned: a throw or next(err) goes to    *)
(* the error-handling middleware, next() to the next one in the chain.     *)
Routed(e, called) ==
    /\ err' = e
    /\ phase' = IF e # NoErr THEN "error" ELSE IF called THEN "run" ELSE "done"
    /\ idx' = IF e = NoErr /\ called THEN idx + 1 ELSE idx

VerifyEvents(o, by) == IF o.verified THEN <<Event("verify", by, NoErr)>> ELSE <<>>

AuthStep ==
    /\ Current = "auth"
    /\ LET o == auth(req, now) IN
        /\ req' = o.req
        /\ log' = log \o VerifyEvents(o, "auth") \o <<Event("next", "auth", o.next)>>
        /\ Routed(o.next, o.called)
    /\ UNCHANGED <<now, env, route, res, unhandled>>
    /\ UNCHANGED stores

OptionalAuthStep ==
    /\ Current = "optionalAuth"
    /\ LET o == optionalAuth(req, now) IN
        /\ req' = o.req
        /\ log' = log \o VerifyEvents(o, "optionalAuth")
                      \o <<Event("next", "optionalAuth", o.next)>>
        /\ Routed(o.next, o.called)
    /\ UNCHANGED <<now, env, route, res, unhandled>>
    /\ UNCHANGED stores

AuthorizeStep ==
    /\ Current = "authorize"
    /\ LET o == authorize(route.roles, req) IN
        /\ req' = o.req
        /\ log' = Append(log, IF o.thrown # NoErr
                              THEN Event("throw", "authorize", o.thrown)
                              ELSE Event("next", "authorize", o.next))
        /\ Routed(IF o.thrown # NoErr THEN o.thrown ELSE o.next, o.called)
    /\ UNCHANGED <<now, env, route, res, unhandled>>
    /\ UNCHANGED stores

(* What asyncHandler makes of what fn did. *)
Supervised(o, when) ==
    LET a == asyncHandler(o) IN
    /\ log' = log
              \o (IF when = "before" THEN <<Event("invoke", "handler", NoErr)>> ELSE <<>>)
              \o <<Event(o.kind, "handler:" \o when, o.err)>>
              \o (IF a.called THEN <<Event("next", "asyncHandler", a.next)>> ELSE <<>>)
    /\ unhandled' = IF a.unhandled # NoErr THEN unhandled \cup {a.unhandled}
                    ELSE unhandled
    /\ res' = o.res
    /\ IF o.kind = "pending" THEN /\ phase' = "await"
                                  /\ UNCHANGED <<idx, err>>
       ELSE IF a.unhandled # NoErr THEN /\ phase' = "done"
                                        /\ UNCHANGED <<idx, err>>
       ELSE Routed(IF a.thrown # NoErr THEN a.thrown ELSE a.next, a.called)

(* The handler runs to its first suspension point, or to its end. *)
HandlerStep ==
    /\ Current = "handler"
    /\ \E o \in {Settled("resolved", NoErr, SuccessResponse),
                 Settled("pending", NoErr, NoResponse)}
               \cup {Settled(k, e, NoResponse) :
                        k \in {"rejected", "threw"}, e \in HandlerErrors} :
        Supervised(o, "before")
    /\ UNCHANGED <<now, env, route, req>>
    /\ UNCHANGED stores

(* The suspended handler is resumed and runs to its end. *)
HandlerResume ==
    /\ phase = "await"
    /\ \E o \in {Settled("resolved", NoErr, SuccessResponse)}
               \cup {Settled("rejected", e, NoResponse) : e \in HandlerErrors} :
        Supervised(o, "after")
    /\ UNCHANGED <<now, env, route, req>>
    /\ UNCHANGED stores

(* The error-handling middleware answers. *)
ErrorHandlerStep ==
    /\ phase = "error"
    /\ res' = errorHandler(err, env)
    /\ log' = Append(log, Event("respond", "errorHandler", err))
    /\ phase' = "done"
    /\ UNCHANGED <<now, env, idx, route, req, err, unhandled>>
    /\ UNCHANGED stores

(* The request is over: its request and response objects, and the         *)
(* identity attached to it, are gone.                                      *)
Finish ==
    /\ phase = "done"
    /\ phase' = "idle"
    /\ idx' = 0
    /\ route' = [chain |-> <<>>, roles |-> NoRoles]
    /\ req' = NewReq(UndefinedHeader)
    /\ err' = NoErr
    /\ res' = NoResponse
    /\ log' = <<>>
    /\ UNCHANGED <<now, env, unhandled>>
    /\ UNCHANGED stores

Next ==
    \/ Tick
    \/ NewRequest
    \/ AuthStep
    \/ OptionalAuthStep
    \/ AuthorizeStep
    \/ HandlerStep
    \/ HandlerResume
    \/ ErrorHandlerStep
    \/ Finish

Spec == Init /\ [][Next]_vars

----------------------------------------------------------------------------
(* The application as the server entry point assembles it: the routers it  *)
(* mounts, each route with the middleware its router gives it, and the     *)
(* error-handling middleware it installs after them.                      *)

\* The payments Map holds at most this many payments.
MaxPayments == 1

(* bcrypt.hash and bcrypt.compare. *)
Hash(password) == "hash(" \o password \o ")"

Compare(password, hashed) == hashed = Hash(password)

(* Map.prototype.set *)
MapSet(map, key, value) ==
    [k \in DOMAIN map \cup {key} |-> IF k = key THEN value ELSE map[k]]

(* The error-handling middleware of the server, lines 199-207. *)
serverErrorHandler(e) ==
    LET status == IF e.status # 0 THEN e.status ELSE 500
    IN  Json(status,
             Body("error",
                  IF e.message # "" THEN e.message ELSE "Internal Server Error",
                  status, "", ""))

(* The error-handling middleware of the upload router: it answers a       *)
(* MulterError itself and passes any other error on.                      *)
uploadErrorHandler(e, passedOn) ==
    IF e.name = "MulterError"
    THEN Json(400, Body("error", e.message, 0, "", ""))
    ELSE passedOn

(* The routes, as the routers mount them: the upload router runs auth     *)
(* before its handlers, the payment router too, the GraphQL router mounts *)
(* auth before graphqlHTTP, the authentication router mounts its          *)
(* handlers alone.                                                        *)
ServerRoutes ==
    { [chain |-> c, roles |-> NoRoles] :
        c \in { <<"auth", "POST /api/payment/create">>,
                <<"auth", "POST /api/upload/single">>,
                <<"auth", "/api/graphql">>,
                <<"GET /api/auth/me">>,
                <<"PUT /api/auth/change-password">> } }

IsUploadRoute(rt) ==
    \E i \in 1..Len(rt.chain) : rt.chain[i] = "POST /api/upload/single"

(* The Authorization headers the clients of the server send: none, one of *)
(* another scheme, a token the server issued (expired or not), a token    *)
(* signed by somebody else, and a token that is not active yet.           *)
ServerHeaders(t) ==
    { UndefinedHeader }
    \cup { HeaderOf(<<Word("Bearer"), SP, Jwt(generateToken(u, i))>>) :
             u \in Users, i \in Instants(t) }
    \cup { HeaderOf(<<Word("Basic"), SP, Jwt(generateToken(u, 0))>>) : u \in Users }
    \cup { HeaderOf(<<Word("Bearer"), SP,
                      Jwt(Sign(generateToken(u, 0).payload, OtherSecret))>>) :
             u \in Users }
    \cup { HeaderOf(<<Word("Bearer"), SP,
                      Jwt(Sign(Payload(u.id, u.email, u.role, {0}, {}, {MaxTime}),
                               ConfiguredSecret))>>) : u \in Users }

(* A request arrives at the server. *)
ServerRequest ==
    /\ phase = "idle"
    /\ \E h \in ServerHeaders(now), rt \in ServerRoutes :
        /\ req' = NewReq(h)
        /\ route' = rt
    /\ phase' = "run"
    /\ idx' = 1
    /\ UNCHANGED <<now, env, err, res, log, unhandled>>
    /\ UNCHANGED stores

(* What a handler did, and the Map it leaves. *)
Handled(settled, map) == [settled |-> settled, map |-> map]

Created == Json(201, Body("success", "", 0, "", ""))

(* Reading a property of req.user when no middleware has set it. *)
UndefinedUserError ==
    Err("Error", "TypeError", "Cannot read properties of undefined", 0)

(* Request bodies of POST /api/payment/create; amount 0 is also a missing *)
(* amount, paymentMethod "" a missing one.                                *)
PaymentBodies ==
    { [amount |-> a, paymentMethod |-> m] : a \in {-5, 0, 50}, m \in {"", "card"} }

(* POST /api/payment/create, lines 35-70; the payment id is               *)
(* Date.now().toString().  The record has no refunded and no refundAmount *)
(* yet: FALSE and 0 stand for the missing properties.                     *)
createPayment(rq, body, map, t) ==
    IF body.amount = 0 \/ body.amount <= 0
    THEN Handled(Settled("rejected", APIError("Valid amount is required", 400),
                         NoResponse), map)
    ELSE IF body.paymentMethod = ""
    THEN Handled(Settled("rejected", APIError("Payment method is required", 400),
                         NoResponse), map)
    ELSE IF ~rq.user.defined
    THEN Handled(Settled("rejected", UndefinedUserError, NoResponse), map)
    ELSE Handled(Settled("resolved", NoErr, Created),
                 MapSet(map, t, [id |-> t, userId |-> rq.user.id,
                                 amount |-> body.amount, status |-> "pending",
                                 refunded |-> FALSE, refundAmount |-> 0]))

PaymentCreateStep ==
    /\ Current = "POST /api/payment/create"
    /\ \E body \in PaymentBodies :
        LET h == createPayment(req, body, payments, now) IN
        /\ Cardinality(DOMAIN h.map) <= MaxPayments
        /\ Supervised(h.settled, "before")
        /\ payments' = h.map
    /\ UNCHANGED <<now, env, route, req, users, seen, cache, tasks>>

(* GET /api/auth/me, lines 206-225. *)
me(rq, map) ==
    IF ~rq.user.defined
    THEN Settled("rejected", UndefinedUserError, NoResponse)
    ELSE IF rq.user.email \notin DOMAIN map
    THEN Settled("rejected", APIError("User not found", 404), NoResponse)
    ELSE Settled("resolved", NoErr, SuccessResponse)

MeStep ==
    /\ Current = "GET /api/auth/me"
    /\ Supervised(me(req, users), "before")
    /\ UNCHANGED <<now, env, route, req>>
    /\ UNCHANGED stores

(* Request bodies of PUT /api/auth/change-password; "" is a missing field. *)
PasswordBodies ==
    { [currentPassword |-> c, newPassword |-> n] :
        c \in {"", "old", "wrong"}, n \in {"", "weak", "New#2024"} }

(* isValidPassword, lines 95-101: long enough and with all four kinds of  *)
(* characters, on the passwords the requests carry.                       *)
isValidPassword(password) == password \in {"New#2024", "Old#2023"}

(* PUT /api/auth/change-password, lines 228-269.  One request is served   *)
(* at a time, so the awaits of bcrypt are passed in the same step.        *)
changePassword(rq, body, map) ==
    IF body.currentPassword = "" \/ body.newPassword = ""
    THEN Handled(Settled("rejected",
                         APIError("Current password and new password are required",
                                  400), NoResponse), map)
    ELSE IF ~isValidPassword(body.newPassword)
    THEN Handled(Settled("rejected",
                         APIError("New password must be at least 8 characters long",
                                  400), NoResponse), map)
    ELSE IF ~rq.user.defined
    THEN Handled(Settled("rejected", UndefinedUserError, NoResponse), map)
    ELSE IF rq.user.email \notin DOMAIN map
    THEN Handled(Settled("rejected", APIError("User not found", 404), NoResponse),
                 map)
    ELSE IF ~Compare(body.currentPassword, map[rq.user.email].password)
    THEN Handled(Settled("rejected", APIError("Current password is incorrect", 401),
                         NoResponse), map)
    ELSE Handled(Settled("resolved", NoErr, SuccessResponse),
                 MapSet(map, rq.user.email,
                        [map[rq.user.email] EXCEPT
                            !.password = Hash(body.newPassword)]))

ChangePasswordStep ==
    /\ Current = "PUT /api/auth/change-password"
    /\ \E body \in PasswordBodies :
        LET h == changePassword(req, body, users) IN
        /\ Supervised(h.settled, "before")
        /\ users' = h.map
    /\ UNCHANGED <<now, env, route, req, payments, seen, cache, tasks>>

(* POST /api/upload/single, lines 63-87: the wrapped function hands the   *)
(* request to multer with a callback and returns; its promise is          *)
(* fulfilled, and asyncHandler has nothing to catch.                      *)
UploadStep ==
    /\ Current = "POST /api/upload/single"
    /\ asyncHandler(Settled("resolved", NoErr, NoResponse)).called = FALSE
    /\ log' = log \o <<Event("invoke", "handler", NoErr),
                       Event("resolved", "handler:before", NoErr)>>
    /\ phase' = "multer"
    /\ UNCHANGED <<now, env, idx, route, req, err, res, unhandled>>
    /\ UNCHANGED stores

(* What multer calls the callback with: a file, no file, a MulterError    *)
(* (the file is too large) or the error of fileFilter.                    *)
UploadResults == {"file", "no file", "MulterError", "fileFilter"}

(* The callback given to upload.single('file'), lines 67-85, an async     *)
(* function: a throw in it rejects the promise it returns.                *)
uploadCallback(result) ==
    IF result = "MulterError"
    THEN Settled("rejected", APIError("File too large", 400), NoResponse)
    ELSE IF result = "fileFilter"
    THEN Settled("rejected", APIError("File type not allowed", 400), NoResponse)
    ELSE IF result = "no file"
    THEN Settled("rejected", APIError("No file uploaded", 400), NoResponse)
    ELSE Settled("resolved", NoErr, Created)

(* multer calls the callback and drops the promise it returns: nobody     *)
(* handles its rejection and nothing answers the request.                 *)
UploadCallbackStep ==
    /\ phase = "multer"
    /\ \E result \in UploadResults :
        LET o == uploadCallback(result) IN
        /\ log' = Append(log, Event(o.kind, "upload callback", o.err))
        /\ res' = o.res
        /\ unhandled' = IF o.kind = "rejected" THEN unhandled \cup {o.err}
                        ELSE unhandled
    /\ phase' = "done"
    /\ UNCHANGED <<now, env, idx, route, req, err>>
    /\ UNCHANGED stores

(* What graphqlHTTP answers: the result of the operation, or the errors   *)
(* of a query it could not run.  It answers by itself and does not call   *)
(* next.                                                                  *)
GraphqlResponses ==
    { SuccessResponse, Json(400, Body("errors", "Syntax Error", 0, "", "")) }

(* The GraphQL endpoint, routes/graphql: auth, then graphqlHTTP with      *)
(* context { user: req.user }.                                            *)
GraphqlStep ==
    /\ Current = "/api/graphql"
    /\ \E r \in GraphqlResponses : res' = r
    /\ log' = Append(log, Event("invoke", "handler", NoErr))
    /\ phase' = "done"
    /\ UNCHANGED <<now, env, idx, route, req, err, unhandled>>
    /\ UNCHANGED stores

(* The error reaches the error-handling middleware: on an upload route    *)
(* that of the upload router first, then that of the server.              *)
ServerErrorStep ==
    /\ phase = "error"
    /\ res' = IF IsUploadRoute(route)
              THEN uploadErrorHandler(err, serverErrorHandler(err))
              ELSE serverErrorHandler(err)
    /\ log' = Append(log, Event("respond", "server", err))
    /\ phase' = "done"
    /\ UNCHANGED <<now, env, idx, route, req, err, unhandled>>
    /\ UNCHANGED stores

ServerNext ==
    \/ Tick
    \/ ServerRequest
    \/ AuthStep
    \/ PaymentCreateStep
    \/ MeStep
    \/ ChangePasswordStep
    \/ UploadStep
    \/ UploadCallbackStep
    \/ GraphqlStep
    \/ ServerErrorStep
    \/ Finish

ServerSpec == Init /\ [][ServerNext]_vars

----------------------------------------------------------------------------
(* auth called with a request, and later with another request that has    *)
(* the same Authorization header.                                         *)

(* auth is called with a request; what it was given, what it attached and *)
(* what it handed to next are kept.                                       *)
AuthOnce ==
    /\ phase = "idle"
    /\ ~seen.called
    /\ \E h \in Headers(now) :
        LET o == auth(NewReq(h), now) IN
        seen' = [called |-> TRUE, header |-> h, user |-> o.req.user,
                 error |-> o.next, at |-> now]
    /\ UNCHANGED <<now, env, phase, idx, route, req, err, res, log, unhandled,
                   users, payments, cache, tasks>>

(* auth is called with a new request that has the same header. *)
AuthAgain ==
    /\ phase = "idle"
    /\ seen.called
    /\ LET o == auth(NewReq(seen.header), now) IN
        /\ req' = o.req
        /\ err' = o.next
        /\ log' = log \o VerifyEvents(o, "auth") \o <<Event("next", "auth", o.next)>>
    /\ phase' = "done"
    /\ UNCHANGED <<now, env, idx, route, res, unhandled>>
    /\ UNCHANGED stores

RepeatNext ==
    \/ Tick
    \/ AuthOnce
    \/ AuthAgain
    \/ Finish

RepeatSpec == Init /\ [][RepeatNext]_vars

----------------------------------------------------------------------------
(* The weather routes (routes/weather), several requests in flight.  Text  *)
(* is a sequence of characters, so that toLowerCase and the concatenation  *)
(* of the cache key are computed on what the request sent.                 *)

UpperCase ==
    <<"A", "B", "C", "D", "E", "F", "G", "H", "I", "J", "K", "L", "M",
      "N", "O", "P", "Q", "R", "S", "T", "U", "V", "W", "X", "Y", "Z">>

LowerCase ==
    <<"a", "b", "c", "d", "e", "f", "g", "h", "i", "j", "k", "l", "m",
      "n", "o", "p", "q", "r", "s", "t", "u", "v", "w", "x", "y", "z">>

(* String.prototype.toLowerCase *)
toLowerCase(text) ==
    [i \in 1..Len(text) |->
        IF \E k \in 1..Len(UpperCase) : UpperCase[k] = text[i]
        THEN LowerCase[CHOOSE k \in 1..Len(UpperCase) : UpperCase[k] = text[i]]
        ELSE text[i]]

(* generateCacheKey, lines 47-49: `weather:${query.toLowerCase()}` *)
generateCacheKey(query) ==
    <<"w", "e", "a", "t", "h", "e", "r", ":">> \o toLowerCase(query)

ForecastPrefix == <<"f", "o", "r", "e", "c", "a", "s", "t", ":">>

(* The query strings of the requests: a city in two spellings, a city     *)
(* whose name begins like the forecast keys, and coordinates without     *)
(* lon.  <<>> is a parameter that is missing or empty.                    *)
WeatherQueries ==
    { [city |-> c, lat |-> <<>>, lon |-> <<>>] :
        c \in { <<"O", "s", "l", "o">>, <<"o", "s", "l", "o">>,
                ForecastPrefix \o <<"O", "s", "l", "o">> } }
    \cup { [city |-> <<>>, lat |-> <<"1">>, lon |-> <<>>] }

(* The location the request names: city, or `${lat},${lon}`. *)
Location(q) == IF q.city # <<>> THEN q.city ELSE q.lat \o <<",">> \o q.lon

(* The cache key of GET / (lines 60-62) and of GET /forecast (133-135). *)
cacheKey(endpoint, q) ==
    IF endpoint = "current" THEN generateCacheKey(Location(q))
    ELSE generateCacheKey(ForecastPrefix \o Location(q))

(* What the upstream service answers for an endpoint and a location, as   *)
(* the handler formats it.                                                *)
WeatherData(endpoint, q) == [endpoint |-> endpoint, location |-> Location(q)]

(* res.json({ success: true, cached, data }) *)
WeatherJson(cached, data) ==
    [sent |-> TRUE, code |-> 200,
     body |-> [kind |-> "weather", cached |-> cached, data |-> data]]

(* How the call of the upstream service ends: with data, with an error    *)
(* response of the service, or without a response.                        *)
UpstreamResults == {"ok", "404", "no response"}

(* The catch of the handlers, lines 104-119 and 204-219. *)
upstreamError(result) ==
    IF result = "404" THEN APIError("Location not found", 404)
    ELSE IF result = "401" THEN APIError("Invalid API key", 401)
    ELSE IF result = "429" THEN APIError("Weather service error", 429)
    ELSE Err("Error", "Error", "connect ECONNREFUSED", 0)

(* What the client gets when the wrapped handler settled: its response,   *)
(* or what the server's error-handling middleware makes of the rejection  *)
(* asyncHandler hands to next.                                            *)
Answer(o) ==
    IF o.kind = "resolved" THEN o.res ELSE serverErrorHandler(asyncHandler(o).next)

(* GET / and GET /forecast up to the await of the upstream call. *)
weatherBegin(endpoint, q, map) ==
    IF q.city = <<>> /\ (q.lat = <<>> \/ q.lon = <<>>)
    THEN Settled("rejected",
                 APIError("City name or coordinates (lat/lon) are required", 400),
                 NoResponse)
    ELSE IF cacheKey(endpoint, q) \in DOMAIN map
    THEN Settled("resolved", NoErr, WeatherJson(TRUE, map[cacheKey(endpoint, q)]))
    ELSE Settled("pending", NoErr, NoResponse)

(* GET / and GET /forecast after the await of the upstream call. *)
weatherEnd(endpoint, q, map, result) ==
    IF result = "ok"
    THEN Handled(Settled("resolved", NoErr,
                         WeatherJson(FALSE, WeatherData(endpoint, q))),
                 MapSet(map, cacheKey(endpoint, q), WeatherData(endpoint, q)))
    ELSE Handled(Settled("rejected", upstreamError(result), NoResponse), map)

WeatherTask(pc, endpoint, h, q, response) ==
    [pc |-> pc, kind |-> endpoint, header |-> h, query |-> q, res |-> response]

NoQuery == [city |-> <<>>, lat |-> <<>>, lon |-> <<>>]

(* The Authorization headers of the requests to the weather routes. *)
WeatherHeaders ==
    { UndefinedHeader }
    \cup { HeaderOf(<<Word("Bearer"), SP, Jwt(generateToken(u, 0))>>) : u \in Users }

WeatherBeginStep(k) ==
    /\ tasks[k].pc = "free"
    /\ \E endpoint \in {"current", "forecast"}, q \in WeatherQueries :
        LET o == weatherBegin(endpoint, q, cache) IN
        tasks' = [tasks EXCEPT ![k] =
                    IF o.kind = "pending"
                    THEN WeatherTask("await", endpoint, UndefinedHeader, q, NoResponse)
                    ELSE WeatherTask("done", endpoint, UndefinedHeader, q, Answer(o))]
    /\ UNCHANGED <<now, env, phase, idx, route, req, err, res, log, unhandled,
                   users, payments, seen, cache>>

WeatherEndStep(k) ==
    /\ tasks[k].pc = "await"
    /\ \E result \in UpstreamResults :
        LET h == weatherEnd(tasks[k].kind, tasks[k].query, cache, result) IN
        /\ cache' = h.map
        /\ tasks' = [tasks EXCEPT ![k].pc = "done", ![k].res = Answer(h.settled)]
    /\ UNCHANGED <<now, env, phase, idx, route, req, err, res, log, unhandled,
                   users, payments, seen>>

(* GET /cache/clear, lines 224-232: cache.flushAll(), whoever asks. *)
CacheClearStep(k) ==
    /\ tasks[k].pc = "free"
    /\ \E h \in WeatherHeaders :
        tasks' = [tasks EXCEPT ![k] =
                    WeatherTask("done", "clear", h, NoQuery, SuccessResponse)]
    /\ cache' = EmptyMap
    /\ UNCHANGED <<now, env, phase, idx, route, req, err, res, log, unhandled,
                   users, payments, seen>>

(* The time to live of an entry (config.cache.stdTTL) has passed. *)
TtlExpires ==
    /\ \E key \in DOMAIN cache :
        cache' = [x \in DOMAIN cache \ {key} |-> cache[x]]
    /\ UNCHANGED <<now, env, phase, idx, route, req, err, res, log, unhandled,
                   users, payments, seen, tasks>>

(* The response has gone out and the request is over. *)
TaskOver(k) ==
    /\ tasks[k].pc = "done"
    /\ tasks' = [tasks EXCEPT ![k] = FreeTask]
    /\ UNCHANGED <<now, env, phase, idx, route, req, err, res, log, unhandled,
                   users, payments, seen, cache>>

WeatherNext ==
    \/ \E k \in 1..MaxTasks : WeatherBeginStep(k)
    \/ \E k \in 1..MaxTasks : WeatherEndStep(k)
    \/ \E k \in 1..MaxTasks : CacheClearStep(k)
    \/ \E k \in 1..MaxTasks : TaskOver(k)
    \/ TtlExpires

WeatherSpec == Init /\ [][WeatherNext]_vars

----------------------------------------------------------------------------
(* The payment routes (routes/payment), several requests in flight.  A     *)
(* handler runs from the arrival of the request, through auth, to its      *)
(* first await in one step, and from the await to its end in another;      *)
(* between the two any other request can run.                              *)

(* The constant payment of a handler that has not read one. *)
NoPayment == [id |-> 0, userId |-> "", amount |-> 0, status |-> "",
              refunded |-> FALSE, refundAmount |-> 0]

PaymentTask(pc, kind, user, id, read, refundAmount, response) ==
    [pc |-> pc, kind |-> kind, user |-> user, id |-> id, read |-> read,
     refundAmount |-> refundAmount, res |-> response]

(* The Authorization headers of the requests to the payment routes. *)
PaymentHeaders ==
    { UndefinedHeader }
    \cup { HeaderOf(<<Word("Bearer"), SP, Jwt(generateToken(u, 0))>>) : u \in Users }

(* The ids in the path of a request: that of a payment made now, and one  *)
(* no payment has.                                                        *)
PaymentIds == {0, ClockStep}

(* The amount in the body of a refund request; 0 is a missing amount. *)
RefundAmounts == {0, 80}

(* GET /api/payment/:id, lines 138-155. *)
getPayment(rq, id, map) ==
    IF id \notin DOMAIN map
    THEN Settled("rejected", APIError("Payment not found", 404), NoResponse)
    ELSE IF map[id].userId # rq.user.id
    THEN Settled("rejected", APIError("Unauthorized", 403), NoResponse)
    ELSE Settled("resolved", NoErr, SuccessResponse)

(* A variant without the test of payment.userId. *)
processBeginNoOwnerTest(rq, id, map) ==
    IF id \notin DOMAIN map
    THEN Settled("rejected", APIError("Payment not found", 404), NoResponse)
    ELSE IF map[id].status # "pending"
    THEN Settled("rejected", APIError("Payment cannot be processed", 400),
                 NoResponse)
    ELSE Settled("pending", NoErr, NoResponse)

(* POST /api/payment/process/:id, lines 73-88, up to await processPayment. *)
processBegin(rq, id, map) ==
    IF id \notin DOMAIN map
    THEN Settled("rejected", APIError("Payment not found", 404), NoResponse)
    ELSE IF map[id].userId # rq.user.id
    THEN Settled("rejected", APIError("Unauthorized", 403), NoResponse)
    ELSE IF map[id].status # "pending"
    THEN Settled("rejected", APIError("Payment cannot be processed", 400),
                 NoResponse)
    ELSE Settled("pending", NoErr, NoResponse)

(* processPayment, lines 11-32: resolves with status 'succeeded' or       *)
(* rejects.                                                               *)
ProcessResults == {"succeeded", "rejected"}

(* POST /api/payment/process/:id, lines 90-134, after the await: the      *)
(* record written is the one read before the await, with a new status.    *)
processEnd(read, id, map, result) ==
    IF result = "succeeded"
    THEN Handled(Settled("resolved", NoErr, SuccessResponse),
                 MapSet(map, id, [read EXCEPT !.status = "succeeded"]))
    ELSE Handled(Settled("rejected", APIError("Payment processing failed", 400),
                         NoResponse),
                 MapSet(map, id, [read EXCEPT !.status = "failed"]))

(* amount || payment.amount *)
refundAmountOf(amount, payment) == IF amount # 0 THEN amount ELSE payment.amount

(* POST /api/payment/:id/refund, lines 173-203, up to the await. *)
refundBegin(rq, id, amount, map) ==
    IF id \notin DOMAIN map
    THEN Settled("rejected", APIError("Payment not found", 404), NoResponse)
    ELSE IF map[id].userId # rq.user.id
    THEN Settled("rejected", APIError("Unauthorized", 403), NoResponse)
    ELSE IF map[id].status # "succeeded"
    THEN Settled("rejected", APIError("Only succeeded payments can be refunded", 400),
                 NoResponse)
    ELSE IF map[id].refunded
    THEN Settled("rejected", APIError("Payment has already been refunded", 400),
                 NoResponse)
    ELSE IF refundAmountOf(amount, map[id]) > map[id].amount
    THEN Settled("rejected", APIError("Refund amount cannot exceed payment amount", 400),
                 NoResponse)
    ELSE Settled("pending", NoErr, NoResponse)

(* POST /api/payment/:id/refund, lines 205-226, after the await. *)
refundEnd(read, id, refundAmount, map) ==
    Handled(Settled("resolved", NoErr, SuccessResponse),
            MapSet(map, id, [read EXCEPT !.refunded = TRUE,
                                         !.refundAmount = refundAmount,
                                         !.status = "refunded"]))

(* The task of a request that auth rejected. *)
Rejected(kind, id, o) ==
    PaymentTask("done", kind, o.req.user, id, NoPayment, 0,
                serverErrorHandler(o.next))

(* The task of a request whose handler ran to an await (o is pending) or  *)
(* to its end.                                                            *)
Ran(kind, user, id, read, refundAmount, o) ==
    PaymentTask(IF o.kind = "pending" THEN "await" ELSE "done", kind, user, id,
                IF o.kind = "pending" THEN read ELSE NoPayment,
                IF o.kind = "pending" THEN refundAmount ELSE 0,
                IF o.kind = "pending" THEN NoResponse ELSE Answer(o))

others == <<now, env, phase, idx, route, req, err, res, log, unhandled,
            users, seen, cache>>

(* POST /api/payment/create.  Two payments made in the same millisecond   *)
(* would get the same id; the requests here arrive at least one apart.    *)
CreateStep(k) ==
    /\ tasks[k].pc = "free"
    /\ \E h \in PaymentHeaders, body \in PaymentBodies :
        LET a == auth(NewReq(h), now) IN
        IF a.next # NoErr
        THEN /\ tasks' = [tasks EXCEPT ![k] = Rejected("create", now, a)]
             /\ payments' = payments
        ELSE LET hd == createPayment(a.req, body, payments, now) IN
             /\ hd.map = payments \/ now \notin DOMAIN payments
             /\ Cardinality(DOMAIN hd.map) <= MaxPayments
             /\ tasks' = [tasks EXCEPT ![k] =
                            Ran("create", a.req.user, now, NoPayment, 0, hd.settled)]
             /\ payments' = hd.map
    /\ UNCHANGED others

(* GET /api/payment/:id *)
GetStep(k) ==
    /\ tasks[k].pc = "free"
    /\ \E h \in PaymentHeaders, id \in PaymentIds :
        LET a == auth(NewReq(h), now) IN
        tasks' = [tasks EXCEPT ![k] =
                    IF a.next # NoErr THEN Rejected("get", id, a)
                    ELSE Ran("get", a.req.user, id, NoPayment, 0,
                             getPayment(a.req, id, payments))]
    /\ payments' = payments
    /\ UNCHANGED others

(* POST /api/payment/process/:id, to the await of processPayment. *)
ProcessBeginStep(k) ==
    /\ tasks[k].pc = "free"
    /\ \E h \in PaymentHeaders, id \in PaymentIds :
        LET a == auth(NewReq(h), now) IN
        tasks' = [tasks EXCEPT ![k] =
                    IF a.next # NoErr THEN Rejected("process", id, a)
                    ELSE Ran("process", a.req.user, id,
                             IF id \in DOMAIN payments THEN payments[id]
                             ELSE NoPayment,
                             0, processBegin(a.req, id, payments))]
    /\ payments' = payments
    /\ UNCHANGED others

(* processPayment settles and the handler goes on to its end. *)
ProcessEndStep(k) ==
    /\ tasks[k].pc = "await"
    /\ tasks[k].kind = "process"
    /\ \E result \in ProcessResults :
        LET hd == processEnd(tasks[k].read, tasks[k].id, payments, result) IN
        /\ payments' = hd.map
        /\ tasks' = [tasks EXCEPT ![k] =
                       Ran("process", tasks[k].user, tasks[k].id, NoPayment, 0,
                           hd.settled)]
    /\ UNCHANGED others

(* POST /api/payment/:id/refund, to the await of the simulated delay. *)
RefundBeginStep(k) ==
    /\ tasks[k].pc = "free"
    /\ \E h \in PaymentHeaders, id \in PaymentIds, amount \in RefundAmounts :
        LET a == auth(NewReq(h), now) IN
        tasks' = [tasks EXCEPT ![k] =
                    IF a.next # NoErr THEN Rejected("refund", id, a)
                    ELSE Ran("refund", a.req.user, id,
                             IF id \in DOMAIN payments THEN payments[id]
                             ELSE NoPayment,
                             IF id \in DOMAIN payments
                             THEN refundAmountOf(amount, payments[id]) ELSE 0,
                             refundBegin(a.req, id, amount, payments))]
    /\ payments' = payments
    /\ UNCHANGED others

(* The delay is over and the handler goes on to its end. *)
RefundEndStep(k) ==
    /\ tasks[k].pc = "await"
    /\ tasks[k].kind = "refund"
    /\ LET hd == refundEnd(tasks[k].read, tasks[k].id, tasks[k].refundAmount,
                           payments) IN
        /\ payments' = hd.map
        /\ tasks' = [tasks EXCEPT ![k] =
                       Ran("refund", tasks[k].user, tasks[k].id, NoPayment, 0,
                           hd.settled)]
    /\ UNCHANGED others

PaymentNext ==
    \/ \E k \in 1..MaxTasks : CreateStep(k)
    \/ \E k \in 1..MaxTasks : GetStep(k)
    \/ \E k \in 1..MaxTasks : ProcessBeginStep(k)
    \/ \E k \in 1..MaxTasks : ProcessEndStep(k)
    \/ \E k \in 1..MaxTasks : RefundBeginStep(k)
    \/ \E k \in 1..MaxTasks : RefundEndStep(k)
    \/ \E k \in 1..MaxTasks : TaskOver(k)

(* Neither the routes served at once nor the error-handling middleware   *)
(* of the server read config.server.env: one mode stands for all.         *)
ProductionInit == Init /\ env = "production"

PaymentSpec == ProductionInit /\ [][PaymentNext]_vars

----------------------------------------------------------------------------
(* Registration (routes/authentication), several requests in flight. *)

(* Request bodies of POST /api/auth/register: an address that has an      *)
(* account, one that has none and one that is no address; two passwords   *)
(* that pass isValidPassword and one that does not; a name or none.       *)
RegisterBodies ==
    { [email |-> e, password |-> p, name |-> n] :
        e \in {"ann@example.com", "cat@example.com", "cat.example.com"},
        p \in {"New#2024", "weak"},
        n \in {"Cat"} }
    \cup { [email |-> "cat@example.com", password |-> "Old#2023", name |-> n] :
             n \in {"", "Cat"} }

(* isValidEmail, lines 89-92: something@something.something *)
isValidEmail(email) == email \in {"ann@example.com", "cat@example.com"}

(* Date.now().toString() *)
NewId(t) == ToString(t)

(* POST /api/auth/register, lines 104-128, up to await bcrypt.genSalt. *)
registerBegin(body, map) ==
    IF body.email = "" \/ body.password = "" \/ body.name = ""
    THEN Settled("rejected", APIError("Email, password, and name are required", 400),
                 NoResponse)
    ELSE IF ~isValidEmail(body.email)
    THEN Settled("rejected", APIError("Invalid email format", 400), NoResponse)
    ELSE IF ~isValidPassword(body.password)
    THEN Settled("rejected",
                 APIError("Password must be at least 8 characters long and contain uppercase, lowercase, number, and special character", 400),
                 NoResponse)
    ELSE IF body.email \in DOMAIN map
    THEN Settled("rejected", APIError("User already exists", 409), NoResponse)
    ELSE Settled("pending", NoErr, NoResponse)

(* POST /api/auth/register, lines 131-163, after the awaits of bcrypt. *)
registerEnd(body, map, t) ==
    Handled(Settled("resolved", NoErr, Created),
            MapSet(map, body.email,
                   [id |-> NewId(t), email |-> body.email, role |-> "user",
                    password |-> Hash(body.password)]))

RegisterTask(pc, body, response) ==
    [pc |-> pc, kind |-> "register", body |-> body, res |-> response]

RegisterBeginStep(k) ==
    /\ tasks[k].pc = "free"
    /\ \E body \in RegisterBodies :
        LET o == registerBegin(body, users) IN
        tasks' = [tasks EXCEPT ![k] =
                    IF o.kind = "pending"
                    THEN RegisterTask("await", body, NoResponse)
                    ELSE RegisterTask("done", body, Answer(o))]
    /\ UNCHANGED <<now, env, phase, idx, route, req, err, res, log, unhandled,
                   users, payments, seen, cache>>

RegisterEndStep(k) ==
    /\ tasks[k].pc = "await"
    /\ LET hd == registerEnd(tasks[k].body, users, now) IN
        /\ users' = hd.map
        /\ tasks' = [tasks EXCEPT ![k] =
                       RegisterTask("done", tasks[k].body, Answer(hd.settled))]
    /\ UNCHANGED <<now, env, phase, idx, route, req, err, res, log, unhandled,
                   payments, seen, cache>>

RegisterNext ==
    \/ \E k \in 1..MaxTasks : RegisterBeginStep(k)
    \/ \E k \in 1..MaxTasks : RegisterEndStep(k)
    \/ \E k \in 1..MaxTasks : TaskOver(k)

RegisterSpec == ProductionInit /\ [][RegisterNext]_vars

----------------------------------------------------------------------------
(* What the claims speak about. *)

Header == req.headers.authorization

Happened(ev, by) == \E i \in 1..Len(log) : log[i].ev = ev /\ log[i].by = by

(* The event with which a middleware called next, once it has. *)
NextOf(by) ==
    log[CHOOSE i \in 1..Len(log) : log[i].ev = "next" /\ log[i].by = by]

AuthRan == Happened("next", "auth")

OptionalAuthRan == Happened("next", "optionalAuth")

AuthorizeRan == Happened("next", "authorize") \/ Happened("throw", "authorize")

HandlerInvoked == Happened("invoke", "handler")

(* The header is 'Bearer ' followed by something. *)
BearerPrefixed(h) ==
    h.present /\ Len(h.val) >= 2 /\ h.val[1] = Word("Bearer") /\ h.val[2] = SP

(* The header is 'Bearer <token>', possibly followed by a space and more. *)
CarriesToken(h) ==
    /\ BearerPrefixed(h)
    /\ Len(h.val) >= 3
    /\ h.val[3].w = ""
    /\ Len(h.val) >= 4 => h.val[4] = SP

PresentedToken == Header.val[3].jwt

SignedWithConfiguredSecret(tok) ==
    tok.wf /\ tok.sig = [key |-> ConfiguredSecret, over |-> tok.payload]

ExpiredAt(tok, t) == \E e \in tok.payload.exp : e <= t

(* A token that is correctly signed, active and unexpired at time t. *)
ValidAt(tok, t) ==
    /\ SignedWithConfiguredSecret(tok)
    /\ ~ExpiredAt(tok, t)
    /\ \A n \in tok.payload.nbf : n <= t

SameIdentity(user, claims) ==
    /\ user.defined
    /\ user.id = claims.id
    /\ user.email = claims.email
    /\ user.role = claims.role

----------------------------------------------------------------------------
(* C1: when the request has no Authorization header, auth passes an error  *)
(* with status 401 to next, does not set req.user, and the handler is not  *)
(* invoked.                                                                *)
C1_MissingHeaderIs401 ==
    (AuthRan /\ ~Header.present) =>
        /\ NextOf("auth").err.status = 401
        /\ ~req.user.defined
        /\ ~HandlerInvoked
        /\ phase \in {"error", "done"}

C1_Witness ==
    /\ AuthRan
    /\ ~Header.present
    /\ phase = "done"
    /\ res.code = 401

(* C2: when the Authorization header is present but does not start with    *)
(* 'Bearer ', auth fails with status 401, never calls jwt.verify and does  *)
(* not set req.user.                                                       *)
C2_NonBearerIs401 ==
    (AuthRan /\ Header.present /\ ~BearerPrefixed(Header)) =>
        /\ NextOf("auth").err.status = 401
        /\ ~Happened("verify", "auth")
        /\ ~req.user.defined
        /\ ~HandlerInvoked

C2_Witness ==
    /\ AuthRan
    /\ Header.present
    /\ Len(Header.val) = 3
    /\ Header.val[1] = Word("Basic")
    /\ NextOf("auth").err = InvalidFormatError
    /\ phase = "done"

(* C3: every rejection by auth is a Structured Error with status 401,      *)
(* whatever made the verification fail, and is never answered with 500.    *)
C3_EveryRejectionIs401 ==
    (AuthRan /\ NextOf("auth").err # NoErr) =>
        /\ NextOf("auth").err.cls = "APIError"
        /\ NextOf("auth").err.status = 401
        /\ (phase = "done" => res.code = 401)

(* C4: a token whose expiration instant has passed is rejected by auth     *)
(* with status 401 even when its signature verifies; req.user is not set.  *)
C4_ExpiredIs401 ==
    (/\ AuthRan
     /\ CarriesToken(Header)
     /\ SignedWithConfiguredSecret(PresentedToken)
     /\ ExpiredAt(PresentedToken, NextOf("auth").at)) =>
        /\ NextOf("auth").err.status = 401
        /\ ~req.user.defined

(* C5: for a valid, unexpired token signed with the configured secret,     *)
(* auth attaches an identity whose id, email and role are the token's      *)
(* claims (those of the user generateToken was called with) and calls      *)
(* next() without an error.                                                *)
C5_ValidTokenAttachesIdentity ==
    (AuthRan /\ CarriesToken(Header)) =>
        /\ ValidAt(PresentedToken, NextOf("auth").at) =>
            /\ SameIdentity(req.user, PresentedToken.payload)
            /\ req.user = PresentedToken.payload
            /\ NextOf("auth").err = NoErr
            /\ idx >= 2
        /\ \A u \in Users : \A i \in Instants(NextOf("auth").at) :
            (/\ PresentedToken = generateToken(u, i)
             /\ NextOf("auth").at < i + ExpiresIn) =>
                /\ SameIdentity(req.user, u)
                /\ NextOf("auth").err = NoErr

C5_Witness ==
    /\ AuthRan
    /\ CarriesToken(Header)
    /\ \E u \in Users : PresentedToken = generateToken(u, 0)
    /\ NextOf("auth").at = ClockStep
    /\ req.user.role = "admin"
    /\ HandlerInvoked

(* C6: optionalAuth never fails the request: whatever the Authorization    *)
(* header, it calls next() without an error, and req.user is set exactly   *)
(* when the header carried a token that verified.                          *)
C6_OptionalAuthNeverFails ==
    OptionalAuthRan =>
        /\ NextOf("optionalAuth").err = NoErr
        /\ idx >= 2
        /\ req.user.defined <=>
            /\ CarriesToken(Header)
            /\ ValidAt(PresentedToken, NextOf("optionalAuth").at)
        /\ req.user.defined => SameIdentity(req.user, PresentedToken.payload)
        /\ unhandled = {}

C6_Witness ==
    /\ OptionalAuthRan
    /\ CarriesToken(Header)
    /\ SignedWithConfiguredSecret(PresentedToken)
    /\ ExpiredAt(PresentedToken, NextOf("optionalAuth").at)
    /\ HandlerInvoked
    /\ ~req.user.defined

(* The roles authorize was built to allow, as a set. *)
AllowedRoles ==
    IF route.roles.kind = "string" THEN {route.roles.str}
    ELSE {route.roles.list[i] : i \in 1..Len(route.roles.list)}

(* C7: without an identity on the request, authorize fails with 401 for    *)
(* every allowed-roles set, the empty one included, never with 403; the    *)
(* failure reaches the error handler, which answers 401, and nothing is    *)
(* left unhandled.                                                         *)
C7_NoIdentityIs401 ==
    (AuthorizeRan /\ ~req.user.defined) =>
        /\ Happened("throw", "authorize")
        /\ err.cls = "APIError"
        /\ err.status = 401
        /\ phase \in {"error", "done"}
        /\ (phase = "done" => res.sent /\ res.code = 401 /\ res.body.status = 401)
        /\ ~HandlerInvoked
        /\ unhandled = {}

C7_Witness ==
    /\ AuthorizeRan
    /\ ~req.user.defined
    /\ AllowedRoles = {"admin"}
    /\ phase = "done"
    /\ res.code = 401

(* C8: with an empty allowed-roles set, or no argument, authorize lets     *)
(* every present identity through, whatever its role, and leaves the       *)
(* request as it was.                                                      *)
C8_EmptyRolesAllowAll ==
    [][(Current = "authorize" /\ req.user.defined /\ AllowedRoles = {}) =>
          /\ req' = req
          /\ err' = NoErr
          /\ phase' = "run"
          /\ idx' = idx + 1]_vars

C8_Witness ==
    /\ Happened("next", "authorize")
    /\ route.roles = NoRoles
    /\ req.user.role = Undefined
    /\ HandlerInvoked

(* C9: with a present identity and a non-empty allowed-roles set, given as *)
(* an array or as one string, authorize calls next() exactly when the      *)
(* identity's role is in the set, and fails with 403 otherwise.            *)
C9_RoleMembershipDecides ==
    (AuthorizeRan /\ req.user.defined /\ AllowedRoles # {}) =>
        /\ Happened("next", "authorize") <=> req.user.role \in AllowedRoles
        /\ req.user.role \in AllowedRoles => err = NoErr \/ HandlerInvoked
        /\ req.user.role \notin AllowedRoles =>
            /\ Happened("throw", "authorize")
            /\ err.cls = "APIError"
            /\ err.status = 403
            /\ ~HandlerInvoked
            /\ (phase = "done" => res.code = 403)

C9_Witness ==
    /\ AuthorizeRan
    /\ route.roles = RoleString("admin")
    /\ req.user.role = "user"
    /\ phase = "done"
    /\ res.code = 403

(* C10: a failure of the wrapped handler, before its first suspension      *)
(* point or after one, is handed to next as an error and is never left     *)
(* unhandled; when the handler completes, next is not called with an error *)
(* and the response is the handler's.                                      *)
C10_SupervisedAcrossSuspension ==
    /\ unhandled = {}
    /\ \A i \in 1..Len(log) :
        /\ log[i].ev \in {"rejected", "threw"} =>
            /\ err = log[i].err
            /\ phase \in {"error", "done"}
            /\ (phase = "done" => res.body.kind = "error")
        /\ log[i].ev = "rejected" =>
            /\ i < Len(log)
            /\ log[i + 1].ev = "next"
            /\ log[i + 1].by = "asyncHandler"
            /\ log[i + 1].err = log[i].err
        /\ log[i].ev = "resolved" =>
            /\ ~Happened("next", "asyncHandler")
            /\ err = NoErr
            /\ phase = "done"
            /\ res = SuccessResponse

C10_Witness ==
    /\ Happened("rejected", "handler:after")
    /\ Happened("next", "asyncHandler")
    /\ phase = "done"
    /\ res.code = 404

----------------------------------------------------------------------------
(* The error envelope. *)

(* errorHandler has answered the failure err of the current request. *)
Responded == Happened("respond", "errorHandler")

IsAPIError(e) == e.cls = "APIError"

(* C11 as stated: an APIError with message m and status s and no details   *)
(* is answered with HTTP status s and the body                             *)
(* { error: { message: m, status: s } } and nothing else.                  *)
C11_BodyIsExactlyMessageAndStatus ==
    (Responded /\ IsAPIError(err) /\ err.details = "") =>
        res = Json(err.status, Body("error", err.message, err.status, "", ""))

(* C11, amended: an APIError with message m and status s and no details is *)
(* answered with HTTP status s and a body whose message is m and status is *)
(* s, without details; the body has these two fields only unless the mode  *)
(* is development, where it has the stack as a third.                      *)
C11_StructuredErrorEnvelope ==
    (Responded /\ IsAPIError(err) /\ err.details = "") =>
        /\ res.sent
        /\ res.code = err.status
        /\ res.body.kind = "error"
        /\ res.body.message = err.message
        /\ res.body.status = err.status
        /\ res.body.details = ""
        /\ (env # "development" => res.body.stack = "")
        /\ (env = "development" => res.body.stack = StackOf(err))

C11_Witness ==
    /\ Responded
    /\ HandlerInvoked
    /\ err = APIError("Payment not found", 404)
    /\ env = "production"
    /\ res = Json(404, Body("error", "Payment not found", 404, "", ""))

(* C12: in production a failure that is not an APIError, whatever it       *)
(* carries, is answered with HTTP status 500 and the body                  *)
(* { error: { message: 'Internal Server Error', status: 500 } }.           *)
C12_UnclassifiedIsGeneric500 ==
    (Responded /\ ~IsAPIError(err) /\ env = "production") =>
        res = Json(500, Body("error", "Internal Server Error", 500, "", ""))

(* C13: the envelope has a stack, and a non-empty one, exactly when the    *)
(* mode is development, whatever the class of the failure.                 *)
C13_StackIffDevelopment ==
    Responded =>
        /\ (env = "development" => res.body.stack = StackOf(err))
        /\ (env = "development" => res.body.stack # "")
        /\ (env # "development" => res.body.stack = "")

C13_Witness ==
    /\ Responded
    /\ env = "test"
    /\ ~IsAPIError(err)
    /\ res.sent
    /\ res.body.stack = ""

(* C14: the envelope has details exactly when the failure is an APIError   *)
(* that carries details, and then they are the APIError's own.             *)
C14_DetailsOnlyOfStructuredErrors ==
    Responded =>
        res.body.details = (IF IsAPIError(err) THEN err.details ELSE "")

----------------------------------------------------------------------------
(* The assembled application. *)

(* The route of the current request runs auth first. *)
Protected == Len(route.chain) >= 1 /\ route.chain[1] = "auth"

Handler == IF route.chain = <<>> THEN "" ELSE route.chain[Len(route.chain)]

AuthSucceeded == AuthRan /\ NextOf("auth").err = NoErr

AuthRejected == AuthRan /\ NextOf("auth").err # NoErr

(* How often something happened to the current request. *)
Times(ev, by) ==
    Cardinality({ i \in 1..Len(log) : log[i].ev = ev /\ log[i].by = by })

(* Something failed while the current request was served. *)
Failed ==
    \E i \in 1..Len(log) :
        \/ log[i].ev \in {"rejected", "threw", "throw"}
        \/ log[i].ev = "next" /\ log[i].err # NoErr

(* C15: in the application the server assembles, a failure on a mounted    *)
(* route is answered through errorHandler's conversion: a failure that is  *)
(* not an APIError reaches the client as 'Internal Server Error' with      *)
(* status 500 and never with its own message.                              *)
C15_ServerConvertsEveryFailure ==
    (phase = "done" /\ err # NoErr) =>
        /\ res.sent
        /\ ~IsAPIError(err) =>
            /\ res.code = 500
            /\ res.body.message = "Internal Server Error"
            /\ res.body.message # err.message

(* C16: an upload request that passed auth gets one response; when the     *)
(* upload callback fails (multer reports an error, or there is no file)    *)
(* the failure is answered with status 400, and no rejection is left       *)
(* unhandled.                                                              *)
C16_UploadFailureIsAnswered ==
    (IsUploadRoute(route) /\ AuthSucceeded /\ phase = "done") =>
        /\ res.sent
        /\ unhandled = {}
        /\ Happened("rejected", "upload callback") => res.code = 400

(* C17: auth calls next exactly once, without an error after it attached   *)
(* the identity or with one error, and a request on which something failed *)
(* gets exactly one error response.                                        *)
C17_FailureConsumedOnce ==
    /\ AuthRan =>
        /\ Times("next", "auth") = 1
        /\ NextOf("auth").err = NoErr <=> req.user.defined
    /\ (phase = "done" /\ Failed) =>
        /\ Times("respond", "server") = 1
        /\ res.sent
        /\ res.body.kind = "error"

(* C18: on a route protected by auth (payment, upload, GraphQL) the        *)
(* handler is invoked only after auth called next() without an error and   *)
(* set req.user; for a request auth rejects no handler is invoked and no   *)
(* Map is written, auth is not tried again, and its error is what the      *)
(* error-handling middleware answers, once.                                *)
C18_HandlerOnlyAfterAuth ==
    /\ [](Protected =>
            /\ HandlerInvoked =>
                /\ AuthSucceeded
                /\ req.user.defined
                /\ SameIdentity(req.user, PresentedToken.payload)
            /\ AuthRejected =>
                /\ ~HandlerInvoked
                /\ ~req.user.defined
                /\ Times("next", "auth") = 1
                /\ Times("verify", "auth") <= 1
                /\ phase \in {"error", "done"}
                /\ err = NextOf("auth").err
                /\ phase = "done" =>
                    /\ Times("respond", "server") = 1
                    /\ res.sent
                    /\ res.body.kind = "error")
    /\ [][ /\ (Protected /\ ~AuthSucceeded) =>
                (payments' = payments /\ users' = users)
           /\ payments' # payments =>
                /\ AuthSucceeded
                /\ \E id \in DOMAIN payments' :
                    /\ payments'[id].userId = req.user.id
                    /\ \A k \in DOMAIN payments : k # id => payments'[k] = payments[k]
         ]_vars

C18_Witness ==
    /\ Handler = "POST /api/payment/create"
    /\ AuthRejected
    /\ phase = "done"
    /\ res.code = 401
    /\ DOMAIN payments # {}

(* C19: auth called twice with the same token, valid both times, attaches *)
(* the same identity, field by field, both times; the second call finds    *)
(* the token as the first did and the Maps as they were.                   *)
C19_SameTokenSameIdentity ==
    (/\ seen.called
     /\ AuthRan
     /\ CarriesToken(seen.header)
     /\ ValidAt(seen.header.val[3].jwt, seen.at)
     /\ ValidAt(seen.header.val[3].jwt, NextOf("auth").at)) =>
        /\ seen.error = NoErr
        /\ NextOf("auth").err = NoErr
        /\ req.user.defined
        /\ req.user = seen.user
        /\ Header = seen.header
        /\ users = RegisteredUsers
        /\ payments = EmptyMap

C19_Witness ==
    /\ seen.called
    /\ AuthRan
    /\ seen.header =
         HeaderOf(<<Word("Bearer"), SP, Jwt(generateToken(CHOOSE u \in Users : u.role = "admin", 0))>>)
    /\ seen.at = 0
    /\ NextOf("auth").at = ClockStep
    /\ req.user.role = "admin"
    /\ req.user = seen.user

(* C20: GET /api/auth/me and PUT /api/auth/change-password are behind      *)
(* auth: a request without a valid bearer token is answered 401 and no     *)
(* stored password changes.                                                *)
C20_ProfileRoutesRequireToken ==
    /\ users = RegisteredUsers
    /\ (/\ Handler \in {"GET /api/auth/me", "PUT /api/auth/change-password"}
        /\ ~(CarriesToken(Header) /\ ValidAt(PresentedToken, now))
        /\ phase = "done") =>
            res.code = 401

----------------------------------------------------------------------------
(* The weather cache. *)

(* The header carries a token that verifies now and names an admin. *)
IsVerifiedAdmin(h) ==
    /\ CarriesToken(h)
    /\ ValidAt(h.val[3].jwt, now)
    /\ h.val[3].jwt.payload.role = "admin"

(* C21: GET /api/weather/cache/clear flushes the cache only for a request  *)
(* with a verified identity of role admin; a clear request of anybody else *)
(* leaves the cache as it was.                                             *)
C21_CacheClearIsAdminOnly ==
    [][ \A k \in 1..MaxTasks :
          (/\ tasks[k].pc = "free"
           /\ tasks'[k].pc = "done"
           /\ tasks'[k].kind = "clear"
           /\ ~IsVerifiedAdmin(tasks'[k].header)) => cache' = cache ]_vars

(* C26: a response with cached: true carries data that an upstream fetch   *)
(* for the same endpoint and the same location, letter case aside, has     *)
(* stored, never data of the other endpoint; and a request whose upstream  *)
(* fetch fails leaves the cache as it was.                                 *)
C26_CacheServesTheSameRequest ==
    /\ [](\A k \in 1..MaxTasks :
            (/\ tasks[k].pc = "done"
             /\ tasks[k].kind \in {"current", "forecast"}
             /\ tasks[k].res.body.kind = "weather"
             /\ tasks[k].res.body.cached) =>
                /\ tasks[k].res.body.data.endpoint = tasks[k].kind
                /\ toLowerCase(tasks[k].res.body.data.location)
                     = toLowerCase(Location(tasks[k].query)))
    /\ [][ \A k \in 1..MaxTasks :
             (/\ tasks[k].pc = "await"
              /\ tasks'[k].pc = "done"
              /\ tasks'[k].res.code # 200) => cache' = cache ]_vars

----------------------------------------------------------------------------
(* The payments. *)

(* Task k takes up a request in this step. *)
Arrives(k) == tasks[k].pc = "free" /\ tasks'[k].pc # "free"

(* Task k comes back from its await and answers in this step. *)
Resumes(k) == tasks[k].pc = "await" /\ tasks'[k].pc = "done"

(* C22: a request to read, process or refund a payment whose userId is not *)
(* the id of the request's identity is answered 403, and one for an id no  *)
(* payment has is answered 404; both leave the payments as they were.  A   *)
(* payment is read, and written after an await, only for its owner.        *)
C22_OnlyTheOwner ==
    [][ \A k \in 1..MaxTasks :
          /\ (/\ Arrives(k)
              /\ tasks'[k].kind \in {"get", "process", "refund"}
              /\ tasks'[k].user.defined) =>
                /\ tasks'[k].id \notin DOMAIN payments =>
                    /\ tasks'[k].pc = "done"
                    /\ tasks'[k].res.code = 404
                    /\ payments' = payments
                /\ (/\ tasks'[k].id \in DOMAIN payments
                    /\ payments[tasks'[k].id].userId # tasks'[k].user.id) =>
                    /\ tasks'[k].pc = "done"
                    /\ tasks'[k].res.code = 403
                    /\ payments' = payments
                /\ (tasks'[k].pc = "await" \/ tasks'[k].res.code = 200) =>
                    /\ tasks'[k].id \in DOMAIN payments
                    /\ payments[tasks'[k].id].userId = tasks'[k].user.id
          /\ (Resumes(k) /\ payments' # payments) =>
                /\ payments[tasks[k].id].userId = tasks[k].user.id
                /\ \A id \in DOMAIN payments' :
                    id # tasks[k].id => payments'[id] = payments[id]
      ]_vars

C22_Witness ==
    \E k \in 1..MaxTasks :
        /\ tasks[k].pc = "done"
        /\ tasks[k].kind = "refund"
        /\ tasks[k].res.code = 403
        /\ tasks[k].id \in DOMAIN payments
        /\ payments[tasks[k].id].userId # tasks[k].user.id
        /\ payments[tasks[k].id].status = "succeeded"

StatusMoves ==
    { <<"pending", "succeeded">>, <<"pending", "failed">>,
      <<"succeeded", "refunded">> }

(* C23: however create, process and refund requests interleave, the status *)
(* of a payment changes only from pending to succeeded, from pending to    *)
(* failed and from succeeded to refunded.                                  *)
C23_StatusMovesForward ==
    [][ \A id \in DOMAIN payments :
          (id \in DOMAIN payments' /\ payments'[id].status # payments[id].status) =>
              <<payments[id].status, payments'[id].status>> \in StatusMoves ]_vars

(* C24: a refund is taken up only for a succeeded payment, a refund        *)
(* request gets a success response only when the payment has not been      *)
(* refunded before, and the refundAmount recorded is never more than the   *)
(* payment's amount.                                                       *)
C24_RefundedAtMostOnce ==
    /\ [](\A id \in DOMAIN payments :
            payments[id].refundAmount <= payments[id].amount)
    /\ [][ \A k \in 1..MaxTasks :
             /\ (Arrives(k) /\ tasks'[k].kind = "refund" /\ tasks'[k].pc = "await") =>
                    payments[tasks'[k].id].status = "succeeded"
             /\ (Resumes(k) /\ tasks[k].kind = "refund" /\ tasks'[k].res.code = 200) =>
                    ~payments[tasks[k].id].refunded
         ]_vars

(* C25: however register requests with one email interleave, a request is  *)
(* answered 201 only when no user with that email is stored, and a stored  *)
(* user is never replaced.                                                 *)
C25_OneRegistrationPerEmail ==
    [][ /\ \A m \in DOMAIN users : m \in DOMAIN users' /\ users'[m] = users[m]
        /\ \A k \in 1..MaxTasks :
             (Resumes(k) /\ tasks'[k].res.code = 201) =>
                 tasks[k].body.email \notin DOMAIN users
      ]_vars

====
